---- MODULE Spec2Model ----
(***************************************************************************)
(* A model of the two picker applications of the repository:               *)
(*   filepicker.py  (FilePicker,  FolderPicker, WrapperWidget)              *)
(*   imagepicker.py (ImagePicker, FolderPicker, WrapperWidget)              *)
(* Strings are sequences of one-character strings, so that the regular      *)
(* expressions, os.path.join, os.path.abspath, str.lower, str.endswith and  *)
(* the tooltip formatting are computed character by character.              *)
(* The filesystem is fixed; every directory of it is readable.              *)
(***************************************************************************)
EXTENDS Naturals, Sequences, FiniteSets, TLC

VARIABLES
    variant,         \* "file": filepicker.py is running, "image": imagepicker.py
    rootSet,         \* the picker object has a rootPath attribute
    rootPath,        \* self.rootPath
    listModel,       \* texts of the rows of self.listModel, in row order
    folderSelector,  \* items of FolderPicker.folderSelector (the dropdown)
    selectorEnabled, \* the dropdown is enabled
    tooltipVisible,  \* a QToolTip is shown
    tooltipText,     \* its text
    hover,           \* the most recent ToolTip event: kind, and root/name it saw
    last,            \* the most recent operation and its string argument
    emitted,         \* the signals the most recent operation emitted, in order
    raised,          \* a handler read self.rootPath before it was assigned
    probe,           \* the filename handed to a direct call of a matcher
    verdict          \* the results of such calls

vars == <<variant, rootSet, rootPath, listModel, folderSelector, selectorEnabled,
          tooltipVisible, tooltipText, hover, last, emitted, raised, probe, verdict>>

pickerVars == <<rootSet, rootPath, listModel>>
tooltipVars == <<tooltipVisible, tooltipText, hover>>
selectorVars == <<folderSelector, selectorEnabled>>
matchVars == <<probe, verdict>>

\* ------------------------------------------------------------------ bounds

MaxFolders == 2
MaxStemLen == 2

\* ----------------------------------------------------------------- strings

Upper == <<"A","B","C","D","E","F","G","H","I","J","K","L","M",
           "N","O","P","Q","R","S","T","U","V","W","X","Y","Z">>
Lowers == <<"a","b","c","d","e","f","g","h","i","j","k","l","m",
            "n","o","p","q","r","s","t","u","v","w","x","y","z">>

lowerChar(c) ==
    IF \E i \in DOMAIN Upper : Upper[i] = c
    THEN Lowers[CHOOSE i \in DOMAIN Upper : Upper[i] = c]
    ELSE c

\* str.lower()
lower(s) == [i \in 1..Len(s) |-> lowerChar(s[i])]

\* str.startswith / str.endswith
startswith(s, p) == Len(s) >= Len(p) /\ SubSeq(s, 1, Len(p)) = p
endswith(s, p) == Len(s) >= Len(p) /\ SubSeq(s, Len(s) - Len(p) + 1, Len(s)) = p

\* str.strip(chars) for a single character
RECURSIVE lstrip(_, _)
lstrip(s, c) == IF s # <<>> /\ Head(s) = c THEN lstrip(Tail(s), c) ELSE s
RECURSIVE rstrip(_, _)
rstrip(s, c) ==
    IF s # <<>> /\ s[Len(s)] = c THEN rstrip(SubSeq(s, 1, Len(s) - 1), c) ELSE s
strip(s, c) == rstrip(lstrip(s, c), c)

\* str.split('/')
RECURSIVE split(_)
split(s) ==
    IF \E k \in 1..Len(s) : s[k] = "/"
    THEN LET k == CHOOSE k \in 1..Len(s) :
                     s[k] = "/" /\ \A j \in 1..(k - 1) : s[j] # "/"
         IN  <<SubSeq(s, 1, k - 1)>> \o split(SubSeq(s, k + 1, Len(s)))
    ELSE <<s>>

\* '/'.join(comps)
RECURSIVE slashJoin(_)
slashJoin(comps) ==
    IF comps = <<>> THEN <<>>
    ELSE IF Len(comps) = 1 THEN comps[1]
    ELSE comps[1] \o <<"/">> \o slashJoin(Tail(comps))

\* ------------------------------------------------------------- os.path

\* posixpath.join(a, b)
join(a, b) ==
    IF startswith(b, <<"/">>) THEN b
    ELSE IF a = <<>> \/ endswith(a, <<"/">>) THEN a \o b
    ELSE a \o <<"/">> \o b

\* the loop of posixpath.normpath over the components
RECURSIVE normComps(_, _, _)
normComps(comps, new, initial) ==
    IF comps = <<>> THEN new
    ELSE LET comp == Head(comps)
             rest == Tail(comps)
         IN  IF comp = <<>> \/ comp = <<".">> THEN normComps(rest, new, initial)
             ELSE IF comp # <<".", ".">>
                     \/ (initial = 0 /\ new = <<>>)
                     \/ (new # <<>> /\ new[Len(new)] = <<".", ".">>)
             THEN normComps(rest, Append(new, comp), initial)
             ELSE IF new # <<>>
             THEN normComps(rest, SubSeq(new, 1, Len(new) - 1), initial)
             ELSE normComps(rest, new, initial)

\* posixpath.normpath(path)
normpath(path) ==
    IF path = <<>> THEN <<".">>
    ELSE LET initial ==
                 IF ~startswith(path, <<"/">>) THEN 0
                 ELSE IF startswith(path, <<"/", "/">>)
                         /\ ~startswith(path, <<"/", "/", "/">>) THEN 2
                 ELSE 1
             body == slashJoin(normComps(split(path), <<>>, initial))
             out == [i \in 1..initial |-> "/"] \o body
         IN  IF out = <<>> THEN <<".">> ELSE out

\* the working directory of the process
cwd == <<"/","t","m","p">>

\* os.path.abspath(path)
abspath(path) ==
    IF startswith(path, <<"/">>) THEN normpath(path) ELSE normpath(join(cwd, path))

\* ------------------------------------------------------------ filesystem

dirF == <<"/","t","m","p","/","F">>
dirFslash == <<"/","t","m","p","/","F","/">>
dirG == <<"/","t","m","p","/","G">>
relG == <<"G">>
dirH == <<"/","t","m","p","/","H","\n">>
noDir == <<"/","n","o","p","e">>
aFile == <<"/","t","m","p","/","F","/","a",".","j","p","g">>

a_jpg == <<"a",".","j","p","g">>
b_txt == <<"b",".","t","x","t">>
c_PNG == <<"c",".","P","N","G">>
d_jpeg == <<"d",".","j","p","e","g">>
e_bmp == <<"e",".","b","m","p">>
foo_jpgx == <<"f","o","o",".","j","p","g","x">>
g_jpg_nl == <<"g",".","j","p","g","\n">>
h_jpg == <<"h",".","J","p","g">>

\* the directories of the filesystem and the names of their immediate entries
fs == (dirF :> {a_jpg, b_txt, c_PNG})
   @@ (dirG :> {d_jpeg, e_bmp, foo_jpgx, g_jpg_nl})
   @@ (dirH :> {h_jpg})
   @@ (cwd :> {<<"F">>, <<"G">>, <<"H","\n">>})
   @@ (<<"/">> :> {<<"t","m","p">>})

\* every name that is an entry of some directory
EntryNames == UNION {fs[d] : d \in DOMAIN fs}

\* os.path.isdir(folder)
isdirEmptyToo(folder) == abspath(folder) \in DOMAIN fs
isdirAny(folder) == TRUE
isdir(folder) == folder # <<>> /\ abspath(folder) \in DOMAIN fs

\* os.listdir(folder), as a set: the order is chosen where the listing is used
listdir(folder) == IF abspath(folder) \in DOMAIN fs THEN fs[abspath(folder)] ELSE {}

\* the paths handed to the refresh operation by a direct call
FolderInputs == {dirF, dirFslash, dirG, relG, dirH, <<>>, noDir, aFile}
\* the paths handed to addFolder
AddInputs == {dirF, noDir}
\* what QFileDialog.getExistingDirectory returns: a directory, or '' on cancel
DialogResults == {dirG, <<>>}

\* ------------------------------------------------------- suffix matchers

bmp == <<"b","m","p">>
jpg == <<"j","p","g">>
jpeg == <<"j","p","e","g">>
png == <<"p","n","g">>

\* the default argument of fileExp
matchedSuffixes == <<bmp, jpg, jpeg, png>>

\* re: '.*' consumes the first k characters ('.' matches anything but a newline)
dotStar(s, k) == \A i \in 1..k : s[i] # "\n"

\* re.IGNORECASE: the literal lit matches s from position k + 1
literalIgnoreCase(s, k, lit) ==
    /\ k + Len(lit) <= Len(s)
    /\ \A i \in 1..Len(lit) : lowerChar(s[k + i]) = lowerChar(lit[i])

\* re: '$' matches at the end of the string and before a newline that ends it
dollar(s, k) == k = Len(s) \/ (k = Len(s) - 1 /\ s[Len(s)] = "\n")

\* one alternative '^.*\.<suffix>$' of the pattern, applied with match()
alternative(s, suffix) ==
    \E k \in 0..Len(s) :
        /\ dotStar(s, k)
        /\ literalIgnoreCase(s, k, <<".">> \o suffix)
        /\ dollar(s, k + 1 + Len(suffix))

\* fileExp().match(s) is not None
fileExpMatch(s) == \E i \in DOMAIN matchedSuffixes : alternative(s, matchedSuffixes[i])

\* nameExp().match(s) is not None
nameExpMatch(s) ==
    \/ alternative(s, bmp)
    \/ alternative(s, jpg)
    \/ alternative(s, jpeg)
    \/ alternative(s, png)

\* nameFilters()
nameFiltersRepeated == <<<<"*",".","b","m","p">>, <<"*",".","j","p","g">>,
                         <<"*",".","j","p","g">>, <<"*",".","p","n","g">>>>
nameFilters == <<<<"*",".","b","m","p">>, <<"*",".","j","p","g">>,
                 <<"*",".","j","p","e","g">>, <<"*",".","p","n","g">>>>

\* the filter of the listing loop
listingMatch(v, fileName) ==
    IF v = "file" THEN fileExpMatch(fileName) ELSE nameExpMatch(fileName)

\* the entries of folder that the listing loop turns into rows
acceptedUnfiltered(v, folder) == listdir(folder)
accepted(v, folder) == {n \in listdir(folder) : listingMatch(v, n)}

\* the orders in which os.listdir may yield the names of S
Orders(S) ==
    {q \in [1..Cardinality(S) -> S] : \A i, j \in 1..Cardinality(S) : q[i] = q[j] => i = j}

\* QStandardItemModel.clear()
keepRows(rows) == rows
clear(rows) == <<>>

\* SelectSeq with the index: the filters of nameFilters() that fullName ends with
RECURSIVE emissions(_, _, _)
emissions(fullName, filters, sig) ==
    IF filters = <<>> THEN <<>>
    ELSE (IF endswith(lower(fullName), strip(lower(Head(filters)), "*"))
          THEN <<[signal |-> sig, payload |-> fullName]>> ELSE <<>>)
         \o emissions(fullName, Tail(filters), sig)

\* what fileSelected / bitmapSelected emits for the row with text name
activation(v, root, name) ==
    LET fullName == abspath(join(root, name))
    IN  IF v = "file"
        THEN IF fileExpMatch(fullName)
             THEN <<[signal |-> "filePicked", payload |-> fullName]>>
             ELSE <<>>
        ELSE emissions(fullName, nameFilters, "imagePicked")

\* the text of the tooltip for the row with text name
tooltip(v, root, name) ==
    LET path == join(root, name)
    IN  IF v = "file"
        THEN path \o <<" ","<","b","r"," ","/",">"," ","<","i","m","g"," ",
                       "w","i","d","t","h","=","\"","3","0","0","\""," ",
                       "s","r","c","=","\"">> \o path \o <<"\""," ","/",">">>
        ELSE path \o <<"<","b","r",">","<","i","m","g"," ",
                       "w","i","d","t","h","=","\"","2","4","0","\""," ",
                       "s","r","c","=","\"">> \o path \o <<"\"",">">>

\* ---------------------------------------------------------------- state

NoOp == [op |-> "init", arg |-> <<>>]
NoVerdict == [fn |-> "none", result |-> FALSE]
NoHover == [kind |-> "none", root |-> <<>>, name |-> <<>>]

Init ==
    /\ variant \in {"file", "image"}
    /\ rootSet = FALSE
    /\ rootPath = <<>>
    /\ listModel = <<>>
    /\ folderSelector = <<>>
    /\ selectorEnabled = (variant = "image")
    /\ tooltipVisible = FALSE
    /\ tooltipText = <<>>
    /\ hover = NoHover
    /\ last = NoOp
    /\ emitted = <<>>
    /\ raised = FALSE
    /\ probe = <<>>
    /\ verdict = NoVerdict

\* self.rootPath = folder: the attribute exists from here on
assignRootDropped(folder) == <<rootSet, rootPath>>
assignRoot(folder) == <<TRUE, folder>>

\* the body of FilePicker.setRootPath / ImagePicker.setBitmapFolder
refresh(folder) ==
    IF ~isdir(folder)
    THEN UNCHANGED pickerVars
    ELSE /\ rootSet' = assignRoot(folder)[1]
         /\ rootPath' = assignRoot(folder)[2]
         /\ \E rows \in Orders(accepted(variant, folder)) :
                listModel' = clear(listModel) \o rows

\* a direct call of the slot setRootPath / setBitmapFolder
setRootPath(folder) ==
    /\ refresh(folder)
    /\ last' = [op |-> "setRootPath", arg |-> folder]
    /\ emitted' = <<>>
    /\ UNCHANGED <<variant, selectorVars, tooltipVars, raised, matchVars>>

\* FolderPicker.selectFolder, with the slot that createWrappers connects
selectFolder(dirName) ==
    /\ emitted' = <<[signal |-> "folderPicked", payload |-> dirName]>>
    /\ refresh(dirName)
    /\ last' = [op |-> "selectFolder", arg |-> dirName]
    /\ UNCHANGED <<variant, selectorVars, tooltipVars, raised, matchVars>>

\* folderSelector.activated[str], with the slot that createWrappers connects
selectorActivated(i) ==
    /\ selectorEnabled
    /\ i \in DOMAIN folderSelector
    /\ refresh(folderSelector[i])
    /\ last' = [op |-> "selectorActivated", arg |-> folderSelector[i]]
    /\ emitted' = <<>>
    /\ UNCHANGED <<variant, selectorVars, tooltipVars, raised, matchVars>>

\* FolderPicker.addFolder
addFolder(folder) ==
    /\ Len(folderSelector) < MaxFolders
    /\ IF variant = "file" /\ ~isdir(folder)
       THEN UNCHANGED selectorVars
       ELSE /\ folderSelector' = Append(folderSelector, folder)
            /\ selectorEnabled' = TRUE
    /\ last' = [op |-> "addFolder", arg |-> folder]
    /\ emitted' = <<>>
    /\ UNCHANGED <<variant, pickerVars, tooltipVars, raised, matchVars>>

\* FolderPicker.clearFolders
clearFolders ==
    /\ selectorEnabled' = (variant = "image")
    /\ folderSelector' = <<>>
    /\ last' = [op |-> "clearFolders", arg |-> <<>>]
    /\ emitted' = <<>>
    /\ UNCHANGED <<variant, pickerVars, tooltipVars, raised, matchVars>>

\* FilePicker.fileSelected / ImagePicker.bitmapSelected for the row with text name
fileSelected(name) ==
    /\ \E i \in DOMAIN listModel : listModel[i] = name
    /\ IF rootSet
       THEN /\ emitted' = activation(variant, rootPath, name)
            /\ UNCHANGED raised
       ELSE /\ emitted' = <<>>
            /\ raised' = TRUE
    /\ last' = [op |-> "fileSelected", arg |-> name]
    /\ UNCHANGED <<variant, pickerVars, selectorVars, tooltipVars, matchVars>>

\* the tooltip after a ToolTip event over empty space
hideTextKeeps == <<tooltipVisible, tooltipText>>
hideText == <<FALSE, <<>>>>

\* FilePicker.event / ImagePicker.event for a ToolTip event over the row with text name
eventOverRow(name) ==
    /\ \E i \in DOMAIN listModel : listModel[i] = name
    /\ IF rootSet
       THEN /\ tooltipVisible' = TRUE
            /\ tooltipText' = tooltip(variant, rootPath, name)
            /\ hover' = [kind |-> "row", root |-> rootPath, name |-> name]
            /\ UNCHANGED raised
       ELSE /\ UNCHANGED tooltipVars
            /\ raised' = TRUE
    /\ last' = [op |-> "event", arg |-> name]
    /\ emitted' = <<>>
    /\ UNCHANGED <<variant, pickerVars, selectorVars, matchVars>>

\* FilePicker.event / ImagePicker.event for a ToolTip event over empty space
eventOverSpace ==
    /\ tooltipVisible' = hideText[1]
    /\ tooltipText' = hideText[2]
    /\ hover' = [kind |-> "space", root |-> <<>>, name |-> <<>>]
    /\ last' = [op |-> "event", arg |-> <<>>]
    /\ emitted' = <<>>
    /\ UNCHANGED <<variant, pickerVars, selectorVars, raised, matchVars>>

Next ==
    \/ \E folder \in FolderInputs : setRootPath(folder)
    \/ \E dirName \in DialogResults : selectFolder(dirName)
    \/ \E i \in 1..MaxFolders : selectorActivated(i)
    \/ \E folder \in AddInputs : addFolder(folder)
    \/ clearFolders
    \/ \E name \in EntryNames : fileSelected(name)
    \/ \E name \in EntryNames : eventOverRow(name)
    \/ eventOverSpace

Spec == Init /\ [][Next]_vars

\* ------------------------------------------- the matchers, called directly

StemChars == {"a", ".", "\n", "/"}
Stems == UNION {[1..n -> StemChars] : n \in 0..MaxStemLen}
Tails == {<<>>, <<".","b","m","p">>, <<".","B","M","P">>, <<".","j","p","g">>,
          <<".","J","p","G">>, <<".","j","p","e","g">>, <<".","J","P","E","G">>,
          <<".","p","n","g">>, <<".","P","n","g">>, <<".","j","p","g","x">>,
          <<"j","p","g">>, <<".","j","p">>, <<".","t","x","t">>,
          <<".","j","p","g","\n">>, <<".","p","n","g","\n","\n">>,
          <<".","g","i","f">>, <<".","j","p","g",".">>, <<"x","b","m","p">>}
Filenames == {stem \o tail : stem \in Stems, tail \in Tails}

InitMatch ==
    /\ variant \in {"file", "image"}
    /\ rootSet = FALSE
    /\ rootPath = <<>>
    /\ listModel = <<>>
    /\ folderSelector = <<>>
    /\ selectorEnabled = (variant = "image")
    /\ tooltipVisible = FALSE
    /\ tooltipText = <<>>
    /\ hover = NoHover
    /\ last = NoOp
    /\ emitted = <<>>
    /\ raised = FALSE
    /\ probe \in Filenames
    /\ verdict = NoVerdict

\* fileExp().match(probe) in filepicker.py
callFileExp ==
    /\ variant = "file"
    /\ verdict' = [fn |-> "fileExp", result |-> fileExpMatch(probe)]
    /\ UNCHANGED <<variant, pickerVars, selectorVars, tooltipVars, last, emitted,
                   raised, probe>>

\* nameExp().match(probe) in imagepicker.py
callNameExp ==
    /\ variant = "image"
    /\ verdict' = [fn |-> "nameExp", result |-> nameExpMatch(probe)]
    /\ UNCHANGED <<variant, pickerVars, selectorVars, tooltipVars, last, emitted,
                   raised, probe>>

NextMatch == callFileExp \/ callNameExp

SpecMatch == InitMatch /\ [][NextMatch]_vars

\* ---------------------------------------------------------------- claims

rows == {listModel[i] : i \in DOMAIN listModel}
RefreshOps == {"setRootPath", "selectFolder", "selectorActivated"}
\* the folder inputs that name a directory of the filesystem, and those that do not
ValidFolders == {dirF, dirFslash, dirG, relG, dirH}
NotFolders == {<<>>, noDir, aFile}
pickedSignal == IF variant = "file" THEN "filePicked" ELSE "imagePicked"

\* p occurs in t as a contiguous piece
Infix(p, t) ==
    \E k \in 0..Len(t) : k + Len(p) <= Len(t) /\ SubSeq(t, k + 1, k + Len(p)) = p

\* s ends with a dot and one of bmp, jpg, jpeg, png, in any letter case
EndsWithPickedSuffix(s) ==
    \E ext \in {bmp, jpg, jpeg, png} : endswith(lower(s), <<".">> \o ext)

\* the suffix re-check of the activation handler, applied to a resolved path
recheck(full) ==
    IF variant = "file" THEN fileExpMatch(full)
    ELSE \E i \in DOMAIN nameFilters :
             endswith(lower(full), strip(lower(nameFilters[i]), "*"))

\* C1: in every reachable state the filenames of the list model are exactly
\* the immediate entries of the current root folder that the listing's suffix
\* matcher accepts (and the list is empty while no root folder is set).
C1_ListMatchesRoot ==
    IF rootSet
    THEN /\ abspath(rootPath) \in DOMAIN fs
         /\ rows = {n \in fs[abspath(rootPath)] : listingMatch(variant, n)}
    ELSE listModel = <<>>

C1_Witness ==
    /\ rootSet /\ rootPath = dirG /\ Len(listModel) = 3
    /\ last = [op |-> "setRootPath", arg |-> noDir]
    /\ folderSelector # <<>>

\* C2: right after a refresh for a valid folder F the list holds exactly one
\* row per immediate entry of F that the matcher accepts and nothing else;
\* for F = {a.jpg, b.txt, c.PNG} the rows are {a.jpg, c.PNG}.
C2_RefreshReplacesRows ==
    (last.op \in RefreshOps /\ last.arg \in ValidFolders) =>
        /\ rootPath = last.arg
        /\ rows = {n \in fs[abspath(last.arg)] : listingMatch(variant, n)}
        /\ Len(listModel) = Cardinality(rows)
        /\ (abspath(last.arg) = dirF => rows = {a_jpg, c_PNG})

C2_Witness ==
    /\ last = [op |-> "setRootPath", arg |-> dirF]
    /\ rows = {a_jpg, c_PNG}
    /\ hover.kind = "row" /\ hover.root = dirG

\* C3: a refresh with a path that is no existing directory changes neither the
\* rows nor the stored root path, and raises nothing.
C3_InvalidFolderIgnored ==
    [][(last'.op \in RefreshOps /\ last'.arg \in NotFolders) =>
            (UNCHANGED pickerVars /\ ~raised')]_vars

C3_Witness ==
    /\ last = [op |-> "setRootPath", arg |-> aFile]
    /\ rootPath = dirF /\ rows = {a_jpg, c_PNG}

\* C4: activating the row with text n under root R emits the chosen-file
\* signal once, with payload abspath(join(R, n)), when the resolved path
\* passes the suffix re-check, and emits nothing when it does not; no error
\* is raised.  Root /tmp/F and row a.jpg give /tmp/F/a.jpg.
C4_ActivationEmitsResolvedPath ==
    last.op = "fileSelected" =>
        LET full == abspath(join(rootPath, last.arg))
            once == <<[signal |-> pickedSignal, payload |-> full]>>
        IN  /\ emitted = (IF recheck(full) THEN once ELSE <<>>)
            /\ ~raised
            /\ (rootPath = dirF /\ last.arg = a_jpg =>
                    emitted = <<[signal |-> pickedSignal, payload |-> aFile]>>)

C4_Witness ==
    /\ last = [op |-> "fileSelected", arg |-> a_jpg]
    /\ rootPath = dirFslash
    /\ emitted = <<[signal |-> "imagePicked", payload |-> aFile]>>

\* C5: a cancelled directory chooser sends the empty path through
\* folderPicked, and the connected refresh leaves rows and root path as they
\* were.
C5_CancelledDialogIsNoOp ==
    [][(last'.op = "selectFolder" /\ last'.arg = <<>>) =>
            /\ emitted' = <<[signal |-> "folderPicked", payload |-> <<>>]>>
            /\ UNCHANGED pickerVars]_vars

C5_Witness ==
    /\ last = [op |-> "selectFolder", arg |-> <<>>]
    /\ emitted = <<[signal |-> "folderPicked", payload |-> <<>>]>>
    /\ rootPath = dirG /\ Len(listModel) = 3

\* C6: a matcher called on a filename answers true exactly when the filename
\* ends with a dot followed by bmp, jpg, jpeg or png in any letter case.
C6_MatcherIsSuffixTest ==
    verdict.fn # "none" => (verdict.result <=> EndsWithPickedSuffix(probe))

\* C7: the preview is visible exactly when the most recent ToolTip event was
\* over a row, and its text then contains the root-joined path of that row.
C7_PreviewFollowsHover ==
    /\ tooltipVisible <=> hover.kind = "row"
    /\ tooltipVisible => Infix(join(hover.root, hover.name), tooltipText)
    /\ ~tooltipVisible => tooltipText = <<>>

C7_Witness ==
    /\ tooltipVisible
    /\ hover = [kind |-> "row", root |-> dirF, name |-> c_PNG]
    /\ Infix(<<"/","t","m","p","/","F","/","c",".","P","N","G">>, tooltipText)
    /\ last.op = "event"

\* C8: every entry of the dropdown is an existing directory.
C8_DropdownHoldsDirectories ==
    \A i \in DOMAIN folderSelector : folderSelector[i] \in ValidFolders

\* C9: activating a row never fails the suffix re-check: every activation
\* emits the chosen-file signal.
C9_RecheckNeverRejects ==
    last.op = "fileSelected" => emitted # <<>>

\* C10: whenever the list model has a row the root path has been assigned, and
\* no handler has read an unassigned root path.
C10_RowsImplyRoot ==
    /\ listModel # <<>> => rootSet
    /\ ~raised

C10_Witness ==
    /\ listModel # <<>> /\ rootSet
    /\ last.op = "fileSelected"
    /\ hover.kind = "row"

====
